---- MODULE Spec2Model ----
(***************************************************************************)
(* Model of fix_defer.py: a script that reads app/routes/app._index.tsx,   *)
(* applies three literal str.replace rules to its text and writes the      *)
(* result back to the same path.                                           *)
(*                                                                         *)
(* Text is a sequence of one-character strings, so that matching and       *)
(* replacing are done character by character as str.replace does them.     *)
(***************************************************************************)
EXTENDS Naturals, Sequences, FiniteSets

VARIABLES
    file,      \* the target path on disk: [exists : BOOLEAN, data : text]
    content,   \* the script's variable `content`
    pc,        \* the statement the script is about to execute
    run,       \* how many times the script has been started
    before,    \* history: the target path as it was when this run started
    buf,       \* text given to the write handle and not yet on disk
    log,       \* history: the steps this run has executed, in order
    failedAt   \* history: the step whose I/O failure ended this run, or "none"

vars == <<file, content, buf, pc, run, before, log, failedAt>>

----------------------------------------------------------------------------
(* Bounds of the model.                                                    *)

\* An input file is the concatenation of at most MaxFrags fragments.
MaxFrags == 4
\* A failing write leaves at most MaxPartial characters in the file.
MaxPartial == 2
\* The script is started at most MaxRuns times on the same file.
MaxRuns == 2

----------------------------------------------------------------------------
(* The six literals of the three rules.                                    *)

\* defer, Await } from "react-router";
S1 == <<"d", "e", "f", "e", "r", ",", " ", "A", "w", "a", "i", "t", " ", "}",
        " ", "f", "r", "o", "m", " ", "\"", "r", "e", "a", "c", "t", "-", "r",
        "o", "u", "t", "e", "r", "\"", ";">>
\* Await } from "react-router";
R1 == <<"A", "w", "a", "i", "t", " ", "}", " ", "f", "r", "o", "m", " ", "\"",
        "r", "e", "a", "c", "t", "-", "r", "o", "u", "t", "e", "r", "\"", ";">>
\* A search literal that is too broad: every "defer", not only the call.
S2Broad == <<"d", "e", "f", "e", "r">>

\* return defer({
S2 == <<"r", "e", "t", "u", "r", "n", " ", "d", "e", "f", "e", "r", "(", "{">>
\* return {
R2 == <<"r", "e", "t", "u", "r", "n", " ", "{">>
\* two spaces, }); newline };
S3 == <<" ", " ", "}", ")", ";", "\n", "}", ";">>
\* two spaces, }; newline };
R3 == <<" ", " ", "}", ";", "\n", "}", ";">>

----------------------------------------------------------------------------
(* str.replace(old, new): find the leftmost occurrence of old at or after  *)
(* the current position, copy the text before it, emit new and resume      *)
(* right after the match; when there is none, copy the rest.  Matches are  *)
(* therefore non-overlapping and all are replaced.                         *)

\* str.find(old, i): the first position >= i where old occurs in s, or 0.
Find(s, old, i) ==
    LET at == { j \in i..(Len(s) - Len(old) + 1) :
                    SubSeq(s, j, j + Len(old) - 1) = old }
    IN  IF at = {} THEN 0 ELSE CHOOSE j \in at : \A k \in at : j <= k

RECURSIVE ReplaceFrom(_, _, _, _)
ReplaceFrom(s, old, new, i) ==
    LET j == Find(s, old, i)
    IN  IF j = 0
        THEN SubSeq(s, i, Len(s))
        ELSE SubSeq(s, i, j - 1) \o new \o ReplaceFrom(s, old, new, j + Len(old))

\* str.replace(old, new, 1): only the leftmost occurrence is replaced.
ReplaceFirst(s, old, new) ==
    LET j == Find(s, old, 1)
    IN  IF j = 0
        THEN s
        ELSE SubSeq(s, 1, j - 1) \o new \o SubSeq(s, j + Len(old), Len(s))

Replace(s, old, new) == ReplaceFrom(s, old, new, 1)

----------------------------------------------------------------------------
(* The files the script is run on.                                         *)

Fragments ==
    { S1, S2, S3,
      <<"d", "e", "f", "e", "r", ",", " ">>,
      <<" ", " ", "}", ")", ";">>,
      <<"\n", "}", ";">>,
      <<"\r">> }

RECURSIVE Concats(_)
Concats(n) ==
    IF n = 0 THEN { <<>> }
    ELSE LET shorter == Concats(n - 1)
         IN  shorter \cup { p \o f : p \in shorter, f \in Fragments }

Inputs == Concats(MaxFrags)

Missing == [exists |-> FALSE, data |-> <<>>]

Present(d) == [exists |-> TRUE, data |-> d]

----------------------------------------------------------------------------
(* The script, one action per step.                                        *)

\* A statement outside any with block raises (the open calls, and the
\* close that leaves a with block): the exception is unhandled and the
\* process ends.
Fail(step) ==
    /\ pc' = "failed"
    /\ failedAt' = step
    /\ log' = Append(log, step)

\* A statement in the body of a with block raises: the exit of the with
\* block, which closes the handle, runs before the exception leaves it.
FailInWith(step, exit) ==
    /\ pc' = exit
    /\ failedAt' = step
    /\ log' = Append(log, step)

Step(step, next) ==
    /\ pc' = next
    /\ log' = Append(log, step)
    /\ UNCHANGED failedAt

Init ==
    /\ file \in {Missing} \cup { Present(d) : d \in Inputs }
    /\ content = <<>>
    /\ buf = <<>>
    /\ pc = "open_r"
    /\ run = 1
    /\ before = file
    /\ log = <<>>
    /\ failedAt = "none"

\* open(path, "a+"): a missing file is created instead of failing.
OpenReadCreating ==
    /\ pc = "open_r"
    /\ \/ /\ file' = Present(file.data)
          /\ Step("open_r", "read")
       \/ /\ Fail("open_r")
          /\ UNCHANGED file
    /\ UNCHANGED <<content, buf, run, before>>

\* open(path, "w+"): the file is truncated as it is opened for reading.
OpenReadTruncating ==
    /\ pc = "open_r"
    /\ \/ /\ file.exists
          /\ file' = Present(<<>>)
          /\ Step("open_r", "read")
       \/ /\ Fail("open_r")
          /\ UNCHANGED file
    /\ UNCHANGED <<content, buf, run, before>>

\* open(path, "r"): fails when the path does not exist or cannot be read;
\* never creates or changes the file.
OpenRead ==
    /\ pc = "open_r"
    /\ \/ /\ file.exists
          /\ Step("open_r", "read")
       \/ Fail("open_r")
    /\ UNCHANGED <<file, content, buf, run, before>>

\* What a text-mode handle opened without a newline argument does to the
\* line ends it reads: "\r\n" and a lone "\r" both become "\n".
Dropped == ""

Universal(s) ==
    LET mark == [ i \in 1..Len(s) |->
                    IF s[i] = "\r" THEN "\n"
                    ELSE IF s[i] = "\n" /\ i > 1 /\ s[i - 1] = "\r" THEN Dropped
                    ELSE s[i] ]
        Kept(c) == c # Dropped
    IN  SelectSeq(mark, Kept)

\* content = f.read(): the whole file with its line ends translated, or a
\* failure (an I/O error, bytes that do not decode) inside the with block.
Read ==
    /\ pc = "read"
    /\ \/ /\ content' = Universal(file.data)
          /\ Step("read", "close_r")
       \/ /\ FailInWith("read", "close_r")
          /\ UNCHANGED content
    /\ UNCHANGED <<file, buf, run, before>>

\* leaving the first with block closes the read handle; the script goes
\* on, or ends when f.read() had raised.
CloseRead ==
    /\ pc = "close_r"
    /\ Step("close_r", IF failedAt = "none" THEN "rule1" ELSE "failed")
    /\ UNCHANGED <<file, content, buf, run, before>>

\* Rule 1 with its arguments swapped: replace(new, old).
Rule1Swapped ==
    /\ pc = "rule1"
    /\ content' = Replace(content, R1, S1)
    /\ Step("rule1", "rule2")
    /\ UNCHANGED <<file, buf, run, before>>

Rule1 ==
    /\ pc = "rule1"
    /\ content' = Replace(content, S1, R1)
    /\ Step("rule1", "rule2")
    /\ UNCHANGED <<file, buf, run, before>>

Rule2 ==
    /\ pc = "rule2"
    /\ content' = Replace(content, S2, R2)
    /\ Step("rule2", "rule3")
    /\ UNCHANGED <<file, buf, run, before>>

\* Rule 3 with its arguments swapped: replace(new, old).
Rule3Swapped ==
    /\ pc = "rule3"
    /\ content' = Replace(content, R3, S3)
    /\ Step("rule3", "open_w")
    /\ UNCHANGED <<file, buf, run, before>>

Rule3 ==
    /\ pc = "rule3"
    /\ content' = Replace(content, S3, R3)
    /\ Step("rule3", "open_w")
    /\ UNCHANGED <<file, buf, run, before>>

\* open(path, "a"): the file is opened for writing without truncating it.
OpenWriteAppend ==
    /\ pc = "open_w"
    /\ \/ /\ file' = Present(file.data)
          /\ buf' = <<>>
          /\ Step("open_w", "write")
       \/ /\ Fail("open_w")
          /\ UNCHANGED <<file, buf>>
    /\ UNCHANGED <<content, run, before>>

\* open(path, "w"): truncates the file and gives a handle with nothing
\* buffered, or fails leaving the file as it was.
OpenWrite ==
    /\ pc = "open_w"
    /\ \/ /\ file' = Present(<<>>)
          /\ buf' = <<>>
          /\ Step("open_w", "write")
       \/ /\ Fail("open_w")
          /\ UNCHANGED <<file, buf>>
    /\ UNCHANGED <<content, run, before>>

\* The lengths k of the part of text t that can have reached the disk when
\* not all of it has.
Partial(t) == { k \in 0..MaxPartial : k < Len(t) }

\* The handle takes text t: all of it reaches the disk, or only its first k
\* characters do and the rest stays buffered, or the transfer fails after
\* the first k characters.
Put(t) ==
    \/ /\ file' = Present(file.data \o t)
       /\ buf' = <<>>
       /\ Step("write", "close_w")
    \/ \E k \in Partial(t) :
          /\ file' = Present(file.data \o SubSeq(t, 1, k))
          /\ buf' = SubSeq(t, k + 1, Len(t))
          /\ Step("write", "close_w")
    \/ \E k \in Partial(t) :
          /\ file' = Present(file.data \o SubSeq(t, 1, k))
          /\ buf' = <<>>
          /\ FailInWith("write", "close_w")

\* f.write(content + "\n"): a newline is added to the text written.
WriteLn ==
    /\ pc = "write"
    /\ Put(content \o <<"\n">>)
    /\ UNCHANGED <<content, run, before>>

\* f.write(content): the text goes to the handle, after what it has written
\* so far.  On writing, the handle turns "\n" into os.linesep, which on a
\* POSIX system is "\n" itself: the text is written as it is.
Write ==
    /\ pc = "write"
    /\ Put(content)
    /\ UNCHANGED <<content, run, before>>

\* leaving the second with block closes the write handle: what is still
\* buffered is flushed, or the flush fails after its first k characters.
\* When f.write() had raised nothing is left to flush and the script ends.
CloseWrite ==
    /\ pc = "close_w"
    /\ \/ /\ failedAt = "none"
          /\ file' = Present(file.data \o buf)
          /\ Step("close_w", "done")
       \/ /\ failedAt = "none"
          /\ \E k \in Partial(buf) :
                file' = Present(file.data \o SubSeq(buf, 1, k))
          /\ Fail("close_w")
       \/ /\ failedAt # "none"
          /\ UNCHANGED file
          /\ Step("close_w", "failed")
    /\ buf' = <<>>
    /\ UNCHANGED <<content, run, before>>

\* The script is started again on the file a successful run left.
Rerun ==
    /\ pc = "done"
    /\ run < MaxRuns
    /\ run' = run + 1
    /\ pc' = "open_r"
    /\ content' = <<>>
    /\ buf' = <<>>
    /\ before' = file
    /\ log' = <<>>
    /\ UNCHANGED <<file, failedAt>>

Next ==
    \/ OpenRead
    \/ Read
    \/ CloseRead
    \/ Rule1
    \/ Rule2
    \/ Rule3
    \/ OpenWrite
    \/ Write
    \/ CloseWrite
    \/ Rerun

Spec == Init /\ [][Next]_vars

----------------------------------------------------------------------------
(* Vocabulary of the properties.  Occurrences are found and replaced by    *)
(* position, independently of the scan Replace performs.                   *)

\* The positions at which old occurs in s.
Occ(s, old) ==
    { i \in 1..(Len(s) - Len(old) + 1) : SubSeq(s, i, i + Len(old) - 1) = old }

Contains(s, old) == Occ(s, old) # {}

IsPrefix(p, s) == Len(p) <= Len(s) /\ SubSeq(s, 1, Len(p)) = p

\* The leftmost-first non-overlapping positions among P, for matches n long.
RECURSIVE Greedy(_, _)
Greedy(P, n) ==
    IF P = {} THEN {}
    ELSE LET m == CHOOSE x \in P : \A y \in P : x <= y
         IN  {m} \cup Greedy({ x \in P : x >= m + n }, n)

\* s with every edit [pos, old, new] of E carried out, rightmost first, so
\* that the positions of the edits still to do are those of s.
RECURSIVE ApplyEdits(_, _)
ApplyEdits(s, E) ==
    IF E = {} THEN s
    ELSE LET e == CHOOSE x \in E : \A y \in E : y.pos <= x.pos
         IN  ApplyEdits(SubSeq(s, 1, e.pos - 1) \o e.new
                           \o SubSeq(s, e.pos + Len(e.old), Len(s)),
                        E \ {e})

EditsOf(s, old, new) ==
    { [pos |-> i, old |-> old, new |-> new] : i \in Greedy(Occ(s, old), Len(old)) }

\* s with every non-overlapping occurrence of old replaced by new.
Expected(s, old, new) == ApplyEdits(s, EditsOf(s, old, new))

OnceEach(s) ==
    /\ Cardinality(Occ(s, S1)) = 1
    /\ Cardinality(Occ(s, S2)) = 1
    /\ Cardinality(Occ(s, S3)) = 1

NoLiteral(s) ==
    /\ ~Contains(s, S1)
    /\ ~Contains(s, S2)
    /\ ~Contains(s, S3)

\* The steps of a run that completes, in the order of the script.
Canon == <<"open_r", "read", "close_r", "rule1", "rule2", "rule3",
           "open_w", "write", "close_w">>

IOSteps == {"open_r", "read", "open_w", "write", "close_w"}

\* The six orders in which three rules can be applied.
Rules == << <<S1, R1>>, <<S2, R2>>, <<S3, R3>> >>

Orders == { <<a, b, c>> : a \in 1..3, b \in 1..3, c \in 1..3 }

Perms == { o \in Orders : {o[1], o[2], o[3]} = {1, 2, 3} }

ApplyRule(s, r) == Replace(s, Rules[r][1], Rules[r][2])

ApplyOrder(s, o) == ApplyRule(ApplyRule(ApplyRule(s, o[1]), o[2]), o[3])

----------------------------------------------------------------------------
(* The properties.                                                         *)

\* C1: when each of the three search literals occurs exactly once in the
\* file, a completed run leaves the file with exactly those three
\* occurrences replaced by their replacement literals and every other
\* character kept in place.
C1_OnceEachReplaced ==
    (pc = "done" /\ OnceEach(before.data)) =>
        file = Present(ApplyEdits(before.data,
                   { [pos |-> i, old |-> S1, new |-> R1] : i \in Occ(before.data, S1) }
                   \cup { [pos |-> i, old |-> S2, new |-> R2] : i \in Occ(before.data, S2) }
                   \cup { [pos |-> i, old |-> S3, new |-> R3] : i \in Occ(before.data, S3) }))

\* C2: when the file holds none of the search literals, the run still opens
\* the file for writing (truncating it) and writes, and a completed run
\* leaves the content equal to what it was.
C2_NoMatchRewritesSame ==
    (pc \in {"write", "done"} /\ NoLiteral(before.data)) =>
        /\ pc = "write" => file = Present(<<>>)
        /\ pc = "done" => file = before /\ log = Canon

\* C3: when the path does not exist as the script starts, the run fails at
\* the read-open step, never reaches the write-open step, and the path
\* still does not exist.
C3_MissingFileFails ==
    ~before.exists =>
        /\ pc \in {"open_r", "failed"}
        /\ pc = "failed" => failedAt = "open_r" /\ log = <<"open_r">>
        /\ file = Missing

\* C3 witness: the run on a missing path has failed.
C3_Witness ==
    /\ ~before.exists
    /\ pc = "failed"
    /\ ~file.exists

\* C4 as stated: after a completed run neither of the first two search
\* literals occurs in the written content.
C4_Original ==
    pc = "done" => ~Contains(file.data, S1) /\ ~Contains(file.data, S2)

\* C4 amended: after a completed run the second search literal does not
\* occur in the written content, and the first occurs in it exactly when
\* the file held "defer, " immediately followed by the first literal; when
\* the first does not occur, rules 1 and 2 change nothing on the next run.
C4_Amended ==
    /\ pc = "done" =>
          /\ ~Contains(file.data, S2)
          /\ Contains(file.data, S1)
                <=> Contains(before.data, SubSeq(S1, 1, 7) \o S1)
    /\ (run > 1 /\ pc = "rule3" /\ ~Contains(before.data, S1)) =>
          content = before.data

\* C4 witness: a completed run on a file holding both literals and no
\* doubled "defer, ", after which neither literal is left.
C4_Witness ==
    /\ pc = "done"
    /\ Contains(before.data, S1)
    /\ Contains(before.data, S2)
    /\ ~Contains(before.data, SubSeq(S1, 1, 7) \o S1)
    /\ ~Contains(file.data, S1)
    /\ ~Contains(file.data, S2)

\* C5: when the result of a run holds neither of the first two search
\* literals, the next run leaves the file as that run left it.
C5_SecondRunSame ==
    (run > 1 /\ pc = "done"
        /\ ~Contains(before.data, S1) /\ ~Contains(before.data, S2)) =>
        file = before

\* C5 witness: a second run completed on the result of a run that had
\* applied rules 1 and 3, and left the file as it found it.
C5_Witness ==
    /\ run > 1
    /\ pc = "done"
    /\ ~Contains(before.data, S1)
    /\ ~Contains(before.data, S2)
    /\ Contains(before.data, R1)
    /\ Contains(before.data, R3)
    /\ file = before

\* C6: a run in which opening or reading fails leaves the file exactly as
\* it was; a run in which writing or the closing flush fails leaves the file
\* holding a proper prefix of the final content (possibly nothing), and the
\* script holds only the transformed text.
C6_FailureLeaves ==
    /\ failedAt \in {"open_r", "read", "open_w"} => file = before
    /\ failedAt \in {"write", "close_w"} =>
          /\ file.exists
          /\ IsPrefix(file.data, content)
          /\ file.data # content
          /\ pc = "failed" =>
                content = Expected(Expected(Expected(Universal(before.data),
                                                     S1, R1), S2, R2), S3, R3)

\* C6 witness: the write failed after some characters and the run has
\* ended; neither the file nor the script holds the original, and the text
\* the script holds is also what it would hold had the file held that text
\* to begin with.
C6_Witness ==
    /\ pc = "failed"
    /\ failedAt \in {"write", "close_w"}
    /\ Len(file.data) > 0
    /\ file.data # before.data
    /\ content # before.data
    /\ ApplyOrder(content, <<1, 2, 3>>) = content

\* C7: the rules are applied in the order 1, 2, 3, the first to the text
\* read and each next one to the text the previous one produced; each
\* replaces every non-overlapping occurrence of its search literal, and
\* leaves the text as it is when there is none.
C7_RulesInOrder ==
    LET e0 == Universal(before.data)
        e1 == Expected(e0, S1, R1)
        e2 == Expected(e1, S2, R2)
        e3 == Expected(e2, S3, R3)
    IN  /\ pc = "rule2" =>
              /\ content = e1
              /\ ~Contains(e0, S1) => content = e0
              /\ Len(content) = Len(e0) - 7 * Cardinality(Occ(e0, S1))
        /\ pc = "rule3" =>
              /\ content = e2
              /\ ~Contains(e1, S2) => content = e1
              /\ Len(content) = Len(e1) - 6 * Cardinality(Occ(e1, S2))
        /\ pc = "open_w" =>
              /\ content = e3
              /\ ~Contains(e2, S3) => content = e2
              /\ Len(content) = Len(e2) - Cardinality(Occ(e2, S3))

\* C7 witness: all three rules have run on a file with two occurrences of
\* the second literal, one of the third and none of the first.
C7_Witness ==
    /\ pc = "open_w"
    /\ Cardinality(Occ(before.data, S2)) = 2
    /\ Cardinality(Occ(before.data, S3)) = 1
    /\ ~Contains(before.data, S1)
    /\ Len(content) = Len(before.data) - 13

\* The steps of the script up to and including step s.
UpTo(s) == SubSeq(Canon, 1, CHOOSE i \in 1..Len(Canon) : Canon[i] = s)

\* The steps that are the body of a with block, and the exit of that block.
WithExit == [read |-> "close_r", write |-> "close_w"]

\* C8 as stated: the steps of a run are a prefix of open-for-read, read,
\* close, rule 1, rule 2, rule 3, open-for-write, write, close; the file
\* differs from what it was only once it has been opened for writing; and
\* once an I/O step has failed it is the last step executed: no step
\* follows.
C8_Original ==
    /\ IsPrefix(log, Canon)
    /\ file # before => Len(log) >= 7
    /\ pc = "done" => log = Canon
    /\ failedAt # "none" =>
          /\ log[Len(log)] = failedAt
          /\ ~ENABLED Next

\* C8 amended: as C8, except that when f.read() or f.write() fails the exit
\* of its with block still closes the handle: that close is the one step
\* that follows the failure (after a failed read no rule is applied and the
\* file is not opened for writing), and after it, or at once when an open
\* or the final close fails, no step follows.
C8_Amended ==
    /\ IsPrefix(log, Canon)
    /\ file # before => Len(log) >= 7
    /\ pc = "done" => log = Canon /\ failedAt = "none"
    /\ pc \notin {"done", "failed"} => pc = Canon[Len(log) + 1]
    /\ pc = "failed" => failedAt # "none" /\ ~ENABLED Next
    /\ failedAt \in {"open_r", "open_w", "close_w"} =>
          /\ pc = "failed"
          /\ log = UpTo(failedAt)
    /\ failedAt \in {"read", "write"} =>
          \/ pc = WithExit[failedAt] /\ log = UpTo(failedAt)
          \/ pc = "failed" /\ log = UpTo(WithExit[failedAt])
    /\ failedAt \in IOSteps \cup {"none"}
    /\ failedAt = "read" => file = before /\ content = <<>>

\* C8 witness: a run in which the write failed, and whose handle the exit
\* of the with block has then closed.
C8_Witness ==
    /\ pc = "failed"
    /\ failedAt = "write"
    /\ log = Canon
    /\ file # before

\* C9: the content a completed run writes holds no occurrence of the second
\* search literal and none of the third, and applying rule 2 or rule 3 twice
\* to the file gives what applying it once gives.
C9_NoSecondThirdLeft ==
    pc = "done" =>
        /\ ~Contains(file.data, S2)
        /\ ~Contains(file.data, S3)
        /\ ApplyRule(ApplyRule(before.data, 2), 2) = Expected(before.data, S2, R2)
        /\ ApplyRule(ApplyRule(before.data, 3), 3) = Expected(before.data, S3, R3)

\* C9 witness: a completed run on a file that held the second and the third
\* literal.
C9_Witness ==
    /\ pc = "done"
    /\ Contains(before.data, S2)
    /\ Contains(before.data, S3)
    /\ ~Contains(file.data, S2)
    /\ ~Contains(file.data, S3)

\* C10: applying the three rules to the text read, in any of the six
\* orders, gives the content a completed run writes.
C10_OrderIndependent ==
    pc = "done" =>
        \A o \in Perms : ApplyOrder(Universal(before.data), o) = file.data

\* C10 witness: a completed run on a file on which all three rules matched.
C10_Witness ==
    /\ pc = "done"
    /\ Contains(before.data, S1)
    /\ Contains(before.data, S2)
    /\ Contains(before.data, S3)
    /\ ApplyOrder(Universal(before.data), <<3, 2, 1>>) = file.data

====
